---- MODULE Spec2Model ----
(***************************************************************************)
(* Model of lib/ofp-actions.h: the packed list of abstract actions         *)
(* ("ofpacts"), its alignment and iteration rules, the builder helpers     *)
(* ofpact_put_<ENUM> / ofpact_update_len, and the codec, validator and     *)
(* equality functions the header declares.                                 *)
(*                                                                         *)
(* An ofpacts buffer is modelled as [recs, size]: 'size' is the number of  *)
(* bytes in use and 'recs' the records physically laid out in it, each     *)
(* with the byte offset 'off' it starts at, its header fields type, compat *)
(* and len, its payload (val, aux) and 'trail', the number of bytes of     *)
(* flexible-array elements that physically follow its fixed part.          *)
(* Navigation never uses 'recs' as an index: it goes through ofpact_next,  *)
(* from offset 0, exactly as OFPACT_FOR_EACH does.                         *)
(***************************************************************************)
EXTENDS Integers, Sequences, FiniteSets, TLC

VARIABLES ofpacts, openflow, error, encoded, pos, visited, other, result, max_ports

vars == <<ofpacts, openflow, error, encoded, pos, visited, other, result, max_ports>>

(***************************************************************************)
(* Bounds of the model.                                                    *)
(***************************************************************************)
\* most records a builder sequence puts into one buffer
MaxRecs == 3
\* most bytes of flexible-array elements a small append adds
MaxTrail == 2
\* one large append: enough to carry a record's extent past 65535 bytes
LargeTrail == 65520
\* most OFPACT_FOR_EACH steps followed in one iteration
MaxVisit == 4
\* most entries of a wire action list
MaxEntries == 2
\* largest max_ports handed to the validator
MaxPorts == 2
\* most records before the sentinel of a list that is validated or compared
MaxChecked == 2

(***************************************************************************)
(* Action type registry.                                                   *)
(***************************************************************************)
OFPACTS ==
    << "END",
       "OUTPUT", "CONTROLLER", "ENQUEUE", "OUTPUT_REG", "BUNDLE",
       "SET_VLAN_VID", "SET_VLAN_PCP", "STRIP_VLAN", "SET_ETH_SRC",
       "SET_ETH_DST", "SET_IPV4_SRC", "SET_IPV4_DST", "SET_IPV4_DSCP",
       "SET_L4_SRC_PORT", "SET_L4_DST_PORT", "REG_MOVE", "REG_LOAD", "DEC_TTL",
       "SET_TUNNEL", "SET_QUEUE", "POP_QUEUE", "FIN_TIMEOUT",
       "RESUBMIT", "LEARN",
       "MULTIPATH", "AUTOPATH",
       "NOTE", "EXIT" >>

ofpact_type == { OFPACTS[i] : i \in 1..Len(OFPACTS) }

N_OFPACTS == Len(OFPACTS)

\* the kinds whose DEFINE_OFPACT names a flexible array member
VariableLength == { "BUNDLE", "LEARN", "NOTE" }

OFPACT_ALIGNTO == 8

UINT16_MAX == 65535

ROUND_UP(x, y) == ((x + y - 1) \div y) * y

OFPACT_ALIGN(size) == ROUND_UP(size, OFPACT_ALIGNTO)

\* sizeof(struct ofpact): two packed one-byte enums and a uint16_t
OFPACT_HEADER_SIZE == 4

\* OFPACT_<ENUM>_RAW_SIZE: sizeof(struct <STRUCT>) for a fixed-length kind,
\* offsetof(struct <STRUCT>, <MEMBER>) for a variable-length one (LP64
\* layout; struct mf_subfield is a pointer and two ints, plain enums are
\* four bytes).
OFPACT_RAW_SIZE(type) ==
    CASE type \in { "END", "STRIP_VLAN", "DEC_TTL", "POP_QUEUE", "EXIT" }
                                        -> OFPACT_HEADER_SIZE
      [] type = "OUTPUT"                -> 8
      [] type = "CONTROLLER"            -> 12
      [] type = "ENQUEUE"               -> 12
      [] type = "OUTPUT_REG"            -> 32
      [] type = "BUNDLE"                -> 36
      [] type \in { "SET_VLAN_VID", "SET_VLAN_PCP", "SET_IPV4_DSCP",
                    "SET_L4_SRC_PORT", "SET_L4_DST_PORT" } -> 6
      [] type \in { "SET_ETH_SRC", "SET_ETH_DST" }         -> 10
      [] type \in { "SET_IPV4_SRC", "SET_IPV4_DST" }       -> 8
      [] type = "REG_MOVE"              -> 40
      [] type = "REG_LOAD"              -> 32
      [] type = "SET_TUNNEL"            -> 16
      [] type \in { "SET_QUEUE", "FIN_TIMEOUT", "RESUBMIT" } -> 8
      [] type = "LEARN"                 -> 40
      [] type = "MULTIPATH"             -> 40
      [] type = "AUTOPATH"              -> 32
      [] type = "NOTE"                  -> 16

OFPACT_SIZE(type) == ROUND_UP(OFPACT_RAW_SIZE(type), OFPACT_ALIGNTO)

(***************************************************************************)
(* Buffers and records.                                                    *)
(***************************************************************************)
OFPUTIL_ACTION_INVALID == "INVALID"

EmptyBuf == [recs |-> << >>, size |-> 0]

\* the record ofpacts->l2 points at: the one put last
l2(buf) == buf.recs[Len(buf.recs)]

\* bytes a record physically occupies: its fixed part and the elements
\* appended behind it
Extent(r) == OFPACT_RAW_SIZE(r.type) + r.trail

\* what is read at byte offset o of the buffer: the record starting there
StartsAt(buf, o) == { i \in 1..Len(buf.recs) : buf.recs[i].off = o }

(***************************************************************************)
(* Record navigation.                                                      *)
(***************************************************************************)
\* ofpact_next without OFPACT_ALIGN
ofpact_next_unaligned(r) == r.off + r.len

\* offset of the record after r
ofpact_next(r) == r.off + OFPACT_ALIGN(r.len)

(***************************************************************************)
(* Builder helpers.                                                        *)
(***************************************************************************)
\* ofpact_init: zero the record, then set type, compat and len; len is
\* stored in the uint16_t field
ofpact_init(off, type, len) ==
    [off |-> off, type |-> type, compat |-> OFPUTIL_ACTION_INVALID,
     len |-> len % (UINT16_MAX + 1), val |-> 0, aux |-> 0, trail |-> 0]

\* ofpact_put: pad the buffer to the alignment, append len bytes there and
\* initialize them; the new record becomes l2
ofpact_put(buf, type, len) ==
    LET rem == buf.size % OFPACT_ALIGNTO
        off == IF rem = 0 THEN buf.size ELSE buf.size + (OFPACT_ALIGNTO - rem)
    IN  [recs |-> Append(buf.recs, ofpact_init(off, type, len)),
         size |-> off + len]

\* ofpact_put_<ENUM> taking the type of the kind that shares its structure
\* (END and EXIT are both struct ofpact_null)
ofpact_put_ENUM_null(buf, type) ==
    ofpact_put(buf, IF type = "END" THEN "EXIT" ELSE type, OFPACT_RAW_SIZE(type))

\* ofpact_put_<ENUM>
ofpact_put_ENUM(buf, type) == ofpact_put(buf, type, OFPACT_RAW_SIZE(type))

\* ofpbuf_put of k bytes of flexible-array elements behind the last record
ofpbuf_put(buf, k) ==
    [recs |-> [buf.recs EXCEPT ![Len(buf.recs)].trail = @ + k],
     size |-> buf.size + k]

\* ofpact_update_len: len := distance from the record to the buffer's tail,
\* stored in the uint16_t field
ofpact_update_len(buf) ==
    [buf EXCEPT !.recs[Len(buf.recs)].len =
                    (buf.size - l2(buf).off) % (UINT16_MAX + 1)]

\* the caller's write of a payload field of the record just put
SetPayload(buf, v, a) ==
    [buf EXCEPT !.recs[Len(buf.recs)].val = v, !.recs[Len(buf.recs)].aux = a]

Terminated(buf) == Len(buf.recs) > 0 /\ l2(buf).type = "END"

(***************************************************************************)
(* Iteration: OFPACT_FOR_EACH as an operator, for the functions that walk  *)
(* a whole list.  The walk starts at offset 0, stops at a record of type   *)
(* END and advances with ofpact_next.  A position where no record starts   *)
(* is reported as a "GARBAGE" record ending the walk; a walk that does not *)
(* reach END within 'fuel' steps is cut there.                             *)
(***************************************************************************)
Garbage(o) ==
    [off |-> o, type |-> "GARBAGE", compat |-> OFPUTIL_ACTION_INVALID,
     len |-> 0, val |-> 0, aux |-> 0, trail |-> 0]

RECURSIVE WalkFrom(_, _, _)
WalkFrom(buf, o, fuel) ==
    IF fuel = 0 THEN << >>
    ELSE IF StartsAt(buf, o) = {} THEN << Garbage(o) >>
    ELSE LET r == buf.recs[CHOOSE i \in StartsAt(buf, o) : TRUE]
         IN  IF r.type = "END" THEN << >>
             ELSE << r >> \o WalkFrom(buf, ofpact_next(r), fuel - 1)

OFPACT_FOR_EACH(buf) == WalkFrom(buf, 0, Len(buf.recs) + 1)

\* the records of the buffer before its END sentinel, by physical layout
NonSentinel(buf) == SelectSeq(buf.recs, LAMBDA r : r.type # "END")

(***************************************************************************)
(* Wire format.  A wire action list is [entries, cut]: the entries in      *)
(* order, each with its opcode, declared length, payload (val, aux) and    *)
(* padding bytes (pad = 0: zero-filled), in a byte range that ends 'cut'   *)
(* bytes before the end of the last entry.                                 *)
(***************************************************************************)
OFP_ACTION_ALIGN == 8

\* the abstract kind each wire opcode is decoded to ("Used for ..." in the
\* comment of each action structure)
KindOf(op) ==
    CASE op = "OFPAT10_OUTPUT"       -> "OUTPUT"
      [] op = "OFPAT10_ENQUEUE"      -> "ENQUEUE"
      [] op = "NXAST_BUNDLE"         -> "BUNDLE"
      [] op = "NXAST_SET_TUNNEL"     -> "SET_TUNNEL"
      [] op = "NXAST_SET_TUNNEL64"   -> "SET_TUNNEL"
      [] op = "NXAST_RESUBMIT"       -> "RESUBMIT"
      [] op = "NXAST_RESUBMIT_TABLE" -> "RESUBMIT"
      [] op = "NXAST_NOTE"           -> "NOTE"
      [] OTHER                       -> "UNKNOWN"

\* size of the fixed part of each wire entry
WireSize(op) ==
    CASE op = "OFPAT10_OUTPUT"       -> 8
      [] op = "OFPAT10_ENQUEUE"      -> 16
      [] op = "NXAST_BUNDLE"         -> 32
      [] op = "NXAST_SET_TUNNEL"     -> 16
      [] op = "NXAST_SET_TUNNEL64"   -> 24
      [] op = "NXAST_RESUBMIT"       -> 16
      [] op = "NXAST_RESUBMIT_TABLE" -> 16
      [] op = "NXAST_NOTE"           -> 16

\* offset of the note bytes in a wire note entry, and bytes per bundle slave
NoteHeader == 10
SlaveSize == 2
\* table_id of a resubmit that names no table
NoTable == 255

WireTotal(entries) ==
    LET RECURSIVE Sum(_)
        Sum(i) == IF i = 0 THEN 0 ELSE entries[i].len + Sum(i - 1)
    IN  Sum(Len(entries))

actions_len(wire) == WireTotal(wire.entries) - wire.cut

(***************************************************************************)
(* Decoder.                                                                *)
(***************************************************************************)
\* EntryError looking the opcode up before it checks the length
EntryError_opcode_first(e, rem) ==
    IF KindOf(e.op) = "UNKNOWN" THEN "UnknownAction"
    ELSE IF e.len > rem \/ e.len < OFP_ACTION_ALIGN \/ e.len % OFP_ACTION_ALIGN # 0
    THEN "BadActionLength"
    ELSE IF KindOf(e.op) \notin VariableLength
    THEN IF e.len # WireSize(e.op) THEN "BadActionLength" ELSE "OK"
    ELSE IF e.len < WireSize(e.op) THEN "BadActionLength"
    ELSE IF e.op = "NXAST_BUNDLE"
            /\ e.len # WireSize(e.op) + ROUND_UP(e.aux * SlaveSize, OFP_ACTION_ALIGN)
    THEN "BadArgument"
    ELSE "OK"

\* the error, or "OK", of decoding one entry with 'rem' bytes left
EntryError(e, rem) ==
    IF e.len > rem \/ e.len < OFP_ACTION_ALIGN \/ e.len % OFP_ACTION_ALIGN # 0
    THEN "BadActionLength"
    ELSE IF KindOf(e.op) = "UNKNOWN" THEN "UnknownAction"
    ELSE IF KindOf(e.op) \notin VariableLength
    THEN IF e.len # WireSize(e.op) THEN "BadActionLength" ELSE "OK"
    ELSE IF e.len < WireSize(e.op) THEN "BadActionLength"
    ELSE IF e.op = "NXAST_BUNDLE"
            /\ e.len # WireSize(e.op) + ROUND_UP(e.aux * SlaveSize, OFP_ACTION_ALIGN)
    THEN "BadArgument"
    ELSE "OK"

\* the internal record of one well-formed entry, appended to buf
DecodeEntry(e, buf) ==
    LET type == KindOf(e.op)
        put == ofpact_put_ENUM(buf, type)
        aux == IF e.op = "NXAST_RESUBMIT" THEN NoTable ELSE e.aux
        set == [put EXCEPT !.recs[Len(put.recs)].compat = e.op,
                           !.recs[Len(put.recs)].val = e.val,
                           !.recs[Len(put.recs)].aux = aux]
    IN  CASE type = "NOTE"   -> ofpact_update_len(ofpbuf_put(set, e.len - NoteHeader))
          [] type = "BUNDLE" -> ofpact_update_len(ofpbuf_put(set, e.aux * SlaveSize))
          [] OTHER           -> set

\* decode entries i.. with 'rem' bytes left: [error, buf]
RECURSIVE ofpacts_from_openflow(_, _, _, _)
ofpacts_from_openflow(entries, i, rem, buf) ==
    IF i > Len(entries)
    THEN [error |-> "OK", buf |-> ofpact_put_ENUM(buf, "END")]
    ELSE LET err == EntryError(entries[i], rem)
         IN  IF err # "OK" THEN [error |-> err, buf |-> buf]
             ELSE ofpacts_from_openflow(entries, i + 1, rem - entries[i].len,
                                        DecodeEntry(entries[i], buf))

\* ofpacts_pull_openflow that leaves the output buffer as the failure found it
ofpacts_pull_openflow_no_clear(wire) ==
    ofpacts_from_openflow(wire.entries, 1, actions_len(wire), EmptyBuf)

\* ofpacts_pull_openflow: the output buffer is cleared first, and again when
\* decoding fails
ofpacts_pull_openflow(wire) ==
    LET got == ofpacts_from_openflow(wire.entries, 1, actions_len(wire), EmptyBuf)
    IN  IF got.error # "OK" THEN [error |-> got.error, buf |-> EmptyBuf]
        ELSE got

(***************************************************************************)
(* Encoder.                                                                *)
(***************************************************************************)
\* the wire entry of one record; compat chooses among the wire forms of a
\* kind that has more than one
EncodeRecord(r) ==
    LET op == CASE r.type = "OUTPUT"     -> "OFPAT10_OUTPUT"
                [] r.type = "ENQUEUE"    -> "OFPAT10_ENQUEUE"
                [] r.type = "BUNDLE"     -> "NXAST_BUNDLE"
                [] r.type = "NOTE"       -> "NXAST_NOTE"
                [] r.type = "SET_TUNNEL" ->
                       IF r.compat = "NXAST_SET_TUNNEL64"
                       THEN "NXAST_SET_TUNNEL64" ELSE "NXAST_SET_TUNNEL"
                [] r.type = "RESUBMIT"   ->
                       IF r.compat = "NXAST_RESUBMIT_TABLE"
                       THEN "NXAST_RESUBMIT_TABLE" ELSE "NXAST_RESUBMIT"
                [] OTHER                 -> "NONE"
        elems == r.len - OFPACT_RAW_SIZE(r.type)
        len == CASE r.type = "NOTE"   -> ROUND_UP(NoteHeader + elems, OFP_ACTION_ALIGN)
                 [] r.type = "BUNDLE" ->
                        WireSize(op) + ROUND_UP(r.aux * SlaveSize, OFP_ACTION_ALIGN)
                 [] op = "NONE"       -> 0
                 [] OTHER             -> WireSize(op)
    IN  [op |-> op, len |-> len, val |-> r.val,
         aux |-> IF op = "NXAST_RESUBMIT" THEN 0 ELSE r.aux, pad |-> 0]

\* ofpacts_to_openflow: one wire entry per record OFPACT_FOR_EACH visits
ofpacts_to_openflow(buf) ==
    LET walk == OFPACT_FOR_EACH(buf)
    IN  [i \in 1..Len(walk) |-> EncodeRecord(walk[i])]

(***************************************************************************)
(* Validator.                                                              *)
(***************************************************************************)
OFPP_MAX == 65280
OFPP_IN_PORT == 65528
OFPP_CONTROLLER == 65533
OFPP_LOCAL == 65534

\* the reserved logical ports an output may name
ReservedPorts == OFPP_IN_PORT..OFPP_LOCAL

\* width in bits of the register a REG_LOAD of the flow context writes
RegWidth == 32

\* the rule of one record: its error, or "OK"
ofpact_check(r, ports) ==
    CASE r.type \in { "OUTPUT", "ENQUEUE" } ->
             IF r.val < ports \/ r.val \in ReservedPorts
             THEN "OK" ELSE "BadOutPort"
      [] r.type = "REG_LOAD" ->
             IF r.val + r.aux <= RegWidth THEN "OK" ELSE "BadArgument"
      [] OTHER -> "OK"

\* ofpacts_check: the error of the first record OFPACT_FOR_EACH visits that
\* breaks its rule, or "OK"
ofpacts_check(buf, ports) ==
    LET walk == OFPACT_FOR_EACH(buf)
        bad == { i \in 1..Len(walk) : ofpact_check(walk[i], ports) # "OK" }
    IN  IF bad = {} THEN "OK"
        ELSE ofpact_check(walk[CHOOSE i \in bad : \A j \in bad : i <= j], ports)

(***************************************************************************)
(* Equality.                                                               *)
(***************************************************************************)
\* what ofpacts_equal compares of a record: its type and its payload, the
\* flexible-array elements up to len included; not its compat
Compared(r) == [type |-> r.type, len |-> r.len, val |-> r.val, aux |-> r.aux]

\* ofpacts_equal: both walks visit the same number of records, equal in pairs
ofpacts_equal(a, b) ==
    LET wa == OFPACT_FOR_EACH(a)
        wb == OFPACT_FOR_EACH(b)
    IN  /\ Len(wa) = Len(wb)
        /\ \A i \in 1..Len(wa) : Compared(wa[i]) = Compared(wb[i])

(***************************************************************************)
(* Inputs.                                                                 *)
(***************************************************************************)
Entry(op, len, val, aux, pad) ==
    [op |-> op, len |-> len, val |-> val, aux |-> aux, pad |-> pad]

\* wire entries offered to the decoder: well-formed ones of every opcode
\* (with zero and nonzero padding where the entry has padding), and ones
\* with an unknown opcode, a length that does not fit the opcode, a
\* misaligned length, and a slave count that does not fit the length
WireEntries ==
    { Entry("OFPAT10_OUTPUT", l, 5, 0, 0) : l \in { 8, 12, 16 } }
    \cup { Entry("OFPAT10_ENQUEUE", 16, 1, 3, p) : p \in { 0, 1 } }
    \cup { Entry("NXAST_SET_TUNNEL", 16, 7, 0, p) : p \in { 0, 1 } }
    \cup { Entry("NXAST_SET_TUNNEL64", 24, 7, 0, 0) }
    \cup { Entry("NXAST_RESUBMIT", 16, 1, 0, 0) }
    \cup { Entry("NXAST_RESUBMIT_TABLE", 16, 1, 2, 0) }
    \cup { Entry("NXAST_NOTE", l, 9, 0, 0) : l \in { 16, 24 } }
    \cup { Entry("NXAST_BUNDLE", 40, 4, n, 0) : n \in { 3, 5 } }
    \cup { Entry("UNKNOWN", 8, 0, 0, 0) }

RECURSIVE SeqsUpTo(_, _)
SeqsUpTo(S, n) ==
    IF n = 0 THEN { << >> }
    ELSE LET shorter == SeqsUpTo(S, n - 1)
         IN  shorter \cup { Append(q, x) : q \in shorter, x \in S }

\* byte ranges offered to the decoder: whole entries, or the last entry cut
\* short by 4 or 8 bytes
WireInputs ==
    { [entries |-> q, cut |-> c] :
        q \in SeqsUpTo(WireEntries, MaxEntries), c \in { 0, 4, 8 } }

ValidInput(wire) ==
    wire.cut = 0 \/ (Len(wire.entries) > 0
                     /\ wire.cut < wire.entries[Len(wire.entries)].len)

NoWire == [entries |-> << >>, cut |-> 0]

\* kinds the builder sequences put
BuildKinds == { "END", "OUTPUT", "ENQUEUE", "BUNDLE", "LEARN", "NOTE" }

\* sizes of the append of flexible-array elements behind record r: a record
\* gets its elements in one append
AppendSizes(r) ==
    IF r.trail = 0 THEN (1..MaxTrail) \cup { LargeTrail } ELSE { }

(***************************************************************************)
(* The state machine: a buffer filled by the decoder or by the builder     *)
(* helpers, then encoded or iterated over.                                 *)
(***************************************************************************)
Idle == pos = -1

Init ==
    /\ ofpacts = EmptyBuf
    /\ openflow = NoWire
    /\ error = "none"
    /\ encoded = << >>
    /\ pos = -1
    /\ visited = << >>
    /\ other = EmptyBuf
    /\ result = "none"
    /\ max_ports = 0

Built(buf) ==
    /\ ofpacts' = buf
    /\ openflow' = NoWire
    /\ error' = "none"
    /\ encoded' = << >>
    /\ visited' = << >>
    /\ result' = "none"
    /\ UNCHANGED <<pos, other, max_ports>>

\* ofpacts_pull_openflow on a byte range, into a buffer that is empty or
\* still holds one record of an earlier use
Decode ==
    /\ Idle
    /\ error = "none"
    /\ Len(ofpacts.recs) <= 1
    /\ \E wire \in WireInputs :
         /\ ValidInput(wire)
         /\ LET got == ofpacts_pull_openflow(wire)
            IN  /\ ofpacts' = got.buf
                /\ error' = got.error
                /\ openflow' = wire
    /\ encoded' = << >>
    /\ visited' = << >>
    /\ result' = "none"
    /\ UNCHANGED <<pos, other, max_ports>>

\* ofpacts_to_openflow on a decoded list
Encode ==
    /\ Idle
    /\ error = "OK"
    /\ encoded' = ofpacts_to_openflow(ofpacts)
    /\ result' = "encoded"
    /\ UNCHANGED <<ofpacts, openflow, error, pos, visited, other, max_ports>>

\* ofpact_put_<ENUM>
Put ==
    /\ Idle
    /\ error = "none"
    /\ ~Terminated(ofpacts)
    /\ Len(ofpacts.recs) < MaxRecs
    /\ \E type \in BuildKinds : Built(ofpact_put_ENUM(ofpacts, type))

\* the caller appends elements of the flexible array of the record put last
AppendTrailing ==
    /\ Idle
    /\ error = "none"
    /\ Len(ofpacts.recs) > 0
    /\ l2(ofpacts).type \in VariableLength
    /\ \E k \in AppendSizes(l2(ofpacts)) : Built(ofpbuf_put(ofpacts, k))

\* ofpact_update_len on the record put last
UpdateLen ==
    /\ Idle
    /\ error = "none"
    /\ Len(ofpacts.recs) > 0
    /\ ~Terminated(ofpacts)
    /\ Built(ofpact_update_len(ofpacts))

\* what a read at offset o of the buffer yields: the record that starts
\* there, or, where none does, whatever bytes are there
Read(buf, o) ==
    IF StartsAt(buf, o) # {}
    THEN { buf.recs[i] : i \in StartsAt(buf, o) }
    ELSE { [Garbage(o) EXCEPT !.type = t, !.len = l] :
             t \in { "END", "OUTPUT" }, l \in { 0, OFPACT_ALIGNTO } }

\* OFPACT_FOR_EACH, initialisation: POS = OFPACTS
IterStart ==
    /\ Idle
    /\ Terminated(ofpacts)
    /\ pos' = 0
    /\ visited' = << >>
    /\ result' = "iterating"
    /\ UNCHANGED <<ofpacts, openflow, error, encoded, other, max_ports>>

\* OFPACT_FOR_EACH, one test of the loop condition, and, where it holds,
\* the loop body and POS = ofpact_next(POS)
IterStep ==
    /\ pos >= 0
    /\ Len(visited) < MaxVisit
    /\ \E r \in Read(ofpacts, pos) :
         IF r.type = "END"
         THEN /\ pos' = -1
              /\ result' = "iterated"
              /\ UNCHANGED visited
         ELSE /\ pos' = ofpact_next(r)
              /\ visited' = Append(visited, pos)
              /\ UNCHANGED result
    /\ UNCHANGED <<ofpacts, openflow, error, encoded, other, max_ports>>

Next ==
    \/ Decode
    \/ Encode
    \/ Put
    \/ AppendTrailing
    \/ UpdateLen
    \/ IterStart
    \/ IterStep

Spec == Init /\ [][Next]_vars

(***************************************************************************)
(* The validator on lists a caller builds: records put with the builder    *)
(* helpers, their payload written by the caller, then END, then            *)
(* ofpacts_check against max_ports.                                        *)
(***************************************************************************)
\* port numbers written into OUTPUT records
Ports == (0..(MaxPorts + 1)) \cup { OFPP_MAX, OFPP_IN_PORT, OFPP_CONTROLLER }

\* the records validated lists are made of, as <<type, val, aux>>
CheckedPayloads ==
    { << "OUTPUT", port, 0 >> : port \in Ports }
    \cup { << "ENQUEUE", port, 1 >> : port \in { 0, OFPP_MAX } }
    \cup { << "REG_LOAD", ofs, RegWidth >> : ofs \in { 0, 16 } }

CheckInit ==
    /\ ofpacts = EmptyBuf
    /\ openflow = NoWire
    /\ error = "none"
    /\ encoded = << >>
    /\ pos = -1
    /\ visited = << >>
    /\ other = EmptyBuf
    /\ result = "none"
    /\ max_ports \in 1..MaxPorts

\* ofpact_put_<ENUM> and the caller's writes of the payload
CheckPut ==
    /\ ~Terminated(ofpacts)
    /\ Len(ofpacts.recs) < MaxChecked
    /\ \E p \in CheckedPayloads :
         ofpacts' = SetPayload(ofpact_put_ENUM(ofpacts, p[1]), p[2], p[3])
    /\ UNCHANGED <<openflow, error, encoded, pos, visited, other, result, max_ports>>

\* ofpact_put_END
CheckEnd ==
    /\ ~Terminated(ofpacts)
    /\ ofpacts' = ofpact_put_ENUM(ofpacts, "END")
    /\ UNCHANGED <<openflow, error, encoded, pos, visited, other, result, max_ports>>

\* ofpacts_check
Validate ==
    /\ Terminated(ofpacts)
    /\ result = "none"
    /\ result' = ofpacts_check(ofpacts, max_ports)
    /\ UNCHANGED <<ofpacts, openflow, error, encoded, pos, visited, other, max_ports>>

CheckNext == CheckPut \/ CheckEnd \/ Validate

SpecCheck == CheckInit /\ [][CheckNext]_vars

(***************************************************************************)
(* Equality on two decoded lists: each grows by one decoded wire entry at  *)
(* a time, gets its END, and the two are compared.                         *)
(***************************************************************************)
\* wire entries the compared lists are decoded from
EqEntries ==
    { Entry("OFPAT10_OUTPUT", 8, v, 0, 0) : v \in { 5, 6 } }
    \cup { Entry("NXAST_SET_TUNNEL", 16, 7, 0, 0),
           Entry("NXAST_SET_TUNNEL64", 24, 7, 0, 0) }
    \cup { Entry("NXAST_NOTE", l, 9, 0, 0) : l \in { 16, 24 } }

EqInit ==
    /\ ofpacts = EmptyBuf
    /\ other = EmptyBuf
    /\ openflow = NoWire
    /\ error = "none"
    /\ encoded = << >>
    /\ pos = -1
    /\ visited = << >>
    /\ result = "none"
    /\ max_ports = 0

Grown(buf) ==
    IF Len(buf.recs) < MaxChecked
    THEN { DecodeEntry(e, buf) : e \in EqEntries } \cup { ofpact_put_ENUM(buf, "END") }
    ELSE { ofpact_put_ENUM(buf, "END") }

EqGrowA ==
    /\ ~Terminated(ofpacts)
    /\ ofpacts' \in Grown(ofpacts)
    /\ UNCHANGED <<openflow, error, encoded, pos, visited, other, result, max_ports>>

EqGrowB ==
    /\ Terminated(ofpacts)
    /\ ~Terminated(other)
    /\ other' \in Grown(other)
    /\ UNCHANGED <<ofpacts, openflow, error, encoded, pos, visited, result, max_ports>>

\* ofpacts_equal
Compare ==
    /\ Terminated(ofpacts)
    /\ Terminated(other)
    /\ result = "none"
    /\ result' = IF ofpacts_equal(ofpacts, other) THEN "equal" ELSE "differ"
    /\ UNCHANGED <<ofpacts, openflow, error, encoded, pos, visited, other, max_ports>>

EqNext == EqGrowA \/ EqGrowB \/ Compare

SpecEqual == EqInit /\ [][EqNext]_vars

(***************************************************************************)
(* Properties of the decoder and the encoder.                              *)
(***************************************************************************)
\* a wire list with its padding bytes zeroed
Canonical(entries) == [i \in 1..Len(entries) |-> [entries[i] EXCEPT !.pad = 0]]

\* bytes of the range left when entry i is read
Rem(wire, i) == actions_len(wire) - WireTotal(SubSeq(wire.entries, 1, i - 1))

Truncated(wire, i) == wire.entries[i].len > Rem(wire, i)

Failed == error \notin { "OK", "none" }

\* C1: encoding the list decoded from an accepted wire action list gives
\* that wire list back, entry for entry, with its padding bytes zeroed.
C1_RoundTrip ==
    result = "encoded" => encoded = Canonical(openflow.entries)

C1_Witness ==
    /\ result = "encoded"
    /\ Len(encoded) = 2
    /\ openflow.entries[1].op = "OFPAT10_ENQUEUE"
    /\ openflow.entries[1].pad # 0
    /\ openflow.entries[2].op = "NXAST_SET_TUNNEL64"

\* C2: whenever ofpacts_pull_openflow returns an error, the output buffer
\* holds no record, also when entries before the failing one had been
\* appended to it.
C2_AllOrNothing == Failed => ofpacts = EmptyBuf

C2_Witness ==
    /\ Failed
    /\ Len(openflow.entries) = 2
    /\ EntryError(openflow.entries[1], actions_len(openflow)) = "OK"
    /\ ofpacts = EmptyBuf

\* C3: a list returned by a successful ofpacts_pull_openflow has a last
\* record of type END, no END before it and nothing after it in the buffer,
\* for the empty input too.
C3_OneSentinel ==
    error = "OK" =>
        /\ Len(ofpacts.recs) = Len(openflow.entries) + 1
        /\ l2(ofpacts).type = "END"
        /\ \A i \in 1..(Len(ofpacts.recs) - 1) : ofpacts.recs[i].type # "END"
        /\ ofpacts.size = l2(ofpacts).off + OFPACT_RAW_SIZE("END")

C3_Witness ==
    /\ error = "OK"
    /\ Len(openflow.entries) = 2
    /\ Len(ofpacts.recs) = 3

\* C4 as stated: if some entry's declared length exceeds the bytes left in
\* the range, the decode returns BadActionLength.
C4_TruncatedIsBadLength ==
    (Failed \/ error = "OK") =>
        ((\E i \in 1..Len(openflow.entries) : Truncated(openflow, i))
            => error = "BadActionLength")

\* C4 amended: if an entry's declared length exceeds the bytes left in the
\* range and every entry before it decodes without error, the decode
\* returns BadActionLength.
C4_TruncatedAfterWellFormed ==
    (Failed \/ error = "OK") =>
        \A i \in 1..Len(openflow.entries) :
            (/\ Truncated(openflow, i)
             /\ \A j \in 1..(i - 1) :
                    EntryError(openflow.entries[j], Rem(openflow, j)) = "OK")
            => error = "BadActionLength"

C4_Witness ==
    /\ error = "BadActionLength"
    /\ Len(openflow.entries) = 2
    /\ Truncated(openflow, 2)
    /\ EntryError(openflow.entries[1], Rem(openflow, 1)) = "OK"

(***************************************************************************)
(* Properties of the builder helpers and of iteration.                     *)
(***************************************************************************)
IsVariable(r) == r.type \in VariableLength

\* every record's len is what ofpact_put_<ENUM> or, after the last append
\* behind it, ofpact_update_len stored for it
LensUpdated(buf) ==
    \A i \in 1..Len(buf.recs) :
        buf.recs[i].len = Extent(buf.recs[i]) % (UINT16_MAX + 1)

\* offsets of the records before the sentinel, in order
RecordStarts(buf) ==
    [i \in 1..Len(NonSentinel(buf)) |-> NonSentinel(buf)[i].off]

IsPrefix(p, q) == Len(p) <= Len(q) /\ p = SubSeq(q, 1, Len(p))

\* C7: ofpact_update_len on a variable-length record leaves its len equal to
\* OFPACT_<ENUM>_RAW_SIZE plus the bytes appended behind it since it was
\* put, and an append leaves the len as it was.
C7_UpdateLenIsRawPlusAppended ==
    [][ /\ (UpdateLen /\ IsVariable(l2(ofpacts))) =>
              l2(ofpacts').len
                  = OFPACT_RAW_SIZE(l2(ofpacts).type) + l2(ofpacts).trail
        /\ AppendTrailing => l2(ofpacts').len = l2(ofpacts).len ]_vars

C9_VisitsEachOnce ==
    (LensUpdated(ofpacts) /\ result \in { "iterating", "iterated" }) =>
        /\ IsPrefix(visited, RecordStarts(ofpacts))
        /\ result = "iterated" => visited = RecordStarts(ofpacts)

\* C10: every record of a fixed-length kind has len = OFPACT_<ENUM>_RAW_SIZE
\* and every record of a variable-length kind has len >= that.
C10_TypeLenConsistent ==
    \A i \in 1..Len(ofpacts.recs) :
        LET r == ofpacts.recs[i]
        IN  IF IsVariable(r) THEN r.len >= OFPACT_RAW_SIZE(r.type)
            ELSE r.len = OFPACT_RAW_SIZE(r.type)

(***************************************************************************)
(* Properties of the validator and of equality.                            *)
(***************************************************************************)
BadPort(r) == r.val >= max_ports /\ r.val \notin ReservedPorts

IsOutput(r) == r.type = "OUTPUT"

\* no record other than an OUTPUT breaks its rule, and every OUTPUT names a
\* port below max_ports
AllWithinRules ==
    \A i \in 1..Len(ofpacts.recs) :
        IF IsOutput(ofpacts.recs[i]) THEN ofpacts.recs[i].val < max_ports
        ELSE ofpact_check(ofpacts.recs[i], max_ports) = "OK"

\* C5 as stated: of a list with an OUTPUT record whose port is max_ports, or
\* any non-reserved port >= max_ports, ofpacts_check returns BadOutPort; of
\* a list whose OUTPUT ports are below max_ports and whose other records
\* break no rule it returns success.
C5_PortBound ==
    result # "none" =>
        /\ (\E i \in 1..Len(ofpacts.recs) :
                IsOutput(ofpacts.recs[i]) /\ BadPort(ofpacts.recs[i]))
               => result = "BadOutPort"
        /\ AllWithinRules => result = "OK"

\* C5 amended: ofpacts_check returns BadOutPort when an OUTPUT record names
\* max_ports, or any non-reserved port >= max_ports, and no record before it
\* breaks a rule; it returns success when every OUTPUT port is below
\* max_ports and no other record breaks a rule.
C5_PortBoundOfFirstViolation ==
    result # "none" =>
        /\ (\E i \in 1..Len(ofpacts.recs) :
                /\ IsOutput(ofpacts.recs[i])
                /\ BadPort(ofpacts.recs[i])
                /\ \A j \in 1..(i - 1) :
                       ofpact_check(ofpacts.recs[j], max_ports) = "OK")
               => result = "BadOutPort"
        /\ AllWithinRules => result = "OK"

C5_Witness ==
    /\ result = "BadOutPort"
    /\ Len(ofpacts.recs) = 3
    /\ ofpacts.recs[1].type = "ENQUEUE"
    /\ ofpacts.recs[1].val < max_ports
    /\ IsOutput(ofpacts.recs[2])
    /\ ofpacts.recs[2].val = max_ports

\* type and payload of the records before the sentinel, by physical layout
Payloads(buf) ==
    [i \in 1..Len(NonSentinel(buf)) |->
        [type |-> NonSentinel(buf)[i].type, val |-> NonSentinel(buf)[i].val,
         aux |-> NonSentinel(buf)[i].aux, trail |-> NonSentinel(buf)[i].trail]]

\* the list of two records decoded in the other order
Swapped(buf) ==
    LET again(r, b) ==
            LET put == ofpact_put_ENUM(b, r.type)
                set == [SetPayload(put, r.val, r.aux)
                            EXCEPT !.recs[Len(put.recs)].compat = r.compat]
            IN  IF r.trail > 0 THEN ofpact_update_len(ofpbuf_put(set, r.trail))
                ELSE set
    IN  ofpact_put_ENUM(again(buf.recs[1], again(buf.recs[2], EmptyBuf)), "END")

\* C6: ofpacts_equal is true exactly when the two lists have the same
\* number of records before the sentinel, with the same type and payload at
\* each position, whatever their compat; so it is reflexive and symmetric,
\* and false of a list and the same list with two distinct records swapped.
C6_EqualIffSamePayloads ==
    result # "none" =>
        /\ (result = "equal") <=> (Payloads(ofpacts) = Payloads(other))
        /\ ofpacts_equal(ofpacts, ofpacts)
        /\ ofpacts_equal(other, ofpacts) <=> (result = "equal")
        /\ (Len(Payloads(ofpacts)) = 2 /\ Payloads(ofpacts)[1] # Payloads(ofpacts)[2])
               => ~ofpacts_equal(ofpacts, Swapped(ofpacts))

C6_Witness ==
    /\ result = "equal"
    /\ Len(ofpacts.recs) = 3
    /\ ofpacts.recs[1].type = "NOTE"
    /\ ofpacts.recs[2].type = "SET_TUNNEL"
    /\ ofpacts.recs[2].compat = "NXAST_SET_TUNNEL"
    /\ other.recs[2].compat = "NXAST_SET_TUNNEL64"

====
